---- MODULE Spec2Model ----
(***************************************************************************)
(* goog.a11y.aria.Announcer (closure/goog/a11y/aria/announcer.js) and      *)
(* goog.events.OnlineHandler (onlinehandler.js), modelled as two state     *)
(* machines that share no state.  SpecAnnouncer runs the Announcer,        *)
(* SpecOnline runs the OnlineHandler.                                      *)
(*                                                                         *)
(* Strings are sequences of characters, so that appending the non-breaking *)
(* space is a real change of the text.                                     *)
(***************************************************************************)
EXTENDS Integers, Sequences, FiniteSets, TLC

\* ---------------------------------------------------------------- bounds
\* longest message handed to say
MaxLen == 2
\* number of elements the document can hold
MaxElems == 3
\* number of dispatched events that are recorded
MaxEvents == 3

\* ------------------------------------------------------------ vocabulary
NBSP == "nbsp"
Chars == {"a", NBSP}
Messages == UNION {[1..n -> Chars] : n \in 0..MaxLen}

POLITE == "polite"
ASSERTIVE == "assertive"
LivePriority == {POLITE, ASSERTIVE}
Undefined == "undefined"
JsNull == [null |-> TRUE]
Null == "null"
EmptyObject == [p \in {} |-> 0]

ONLINE == "online"
OFFLINE == "offline"

VARIABLES
    \* ---- Announcer
    liveRegions_,           \* priority -> element (index into dom), or JsNull
    lastMessageAnnounced_,  \* string
    dom,                    \* every element created so far, in creation order
    announcerDisposed,      \* goog.Disposable's disposed flag
    said,                   \* observer: the last two say calls, newest last
    used,                   \* observer: the priorities say was called with
    unhidden,               \* observer: the last say found its region hidden
    aOp,                    \* observer: the operation that ran last
    \* ---- OnlineHandler
    navigatorOnLine,        \* navigator.onLine
    nativeEvents,           \* the browser fires 'online'/'offline' on window
    eventHandler_,          \* "listening" or Null
    timer_,                 \* Undefined, "running" or Null
    online_,                \* Undefined, "true" or "false"
    handlerDisposed,        \* goog.Disposable's disposed flag
    events,                 \* observer: every event dispatched so far
    hOp,                    \* observer: the operation that ran last
    tickFlag                \* observer: navigator.onLine at the previous tick

avars == <<liveRegions_, lastMessageAnnounced_, dom, announcerDisposed, said,
           used, unhidden, aOp>>
hvars == <<navigatorOnLine, nativeEvents, eventHandler_, timer_, online_,
           handlerDisposed, events, hOp, tickFlag>>
vars == <<avars, hvars>>

\* ============================================================ Announcer

Put(obj, key, value) ==
    [k \in (DOMAIN obj) \cup {key} |-> IF k = key THEN value ELSE obj[k]]

Has(obj, key) == obj # JsNull /\ key \in DOMAIN obj

\* the element kept for a priority; 0 when there is none
RegionOf(priority) ==
    IF Has(liveRegions_, priority) THEN liveRegions_[priority] ELSE 0

\* the elements that are attached to the document body
InDocument == {e \in 1..Len(dom) : dom[e].inBody}

AnnouncerInit ==
    /\ liveRegions_ = EmptyObject
    /\ lastMessageAnnounced_ = <<>>
    /\ dom = <<>>
    /\ announcerDisposed = FALSE
    /\ said = <<>>
    /\ used = {}
    /\ unhidden = FALSE
    /\ aOp = "new"

NewLiveRegion_Polite(priority) ==
    [live |-> POLITE, atomic |-> "true", hidden |-> FALSE,
     position |-> "absolute", top |-> "-1000px", height |-> "1px",
     overflow |-> "hidden", text |-> <<>>, inBody |-> TRUE]

\* a new DIV with the live and atomic states set, appended to the body
NewLiveRegion(priority) ==
    [live |-> priority, atomic |-> "true", hidden |-> FALSE,
     position |-> "absolute", top |-> "-1000px", height |-> "1px",
     overflow |-> "hidden", text |-> <<>>, inBody |-> TRUE]

getLiveRegion_KeepHidden(priority) ==
    IF Has(liveRegions_, priority)
    THEN [liveRegion |-> liveRegions_[priority],
          dom |-> dom,
          liveRegions |-> liveRegions_]
    ELSE [liveRegion |-> Len(dom) + 1,
          dom |-> Append(dom, NewLiveRegion(priority)),
          liveRegions |-> Put(liveRegions_, priority, Len(dom) + 1)]

getLiveRegion_Uncached(priority) ==
    [liveRegion |-> Len(dom) + 1,
     dom |-> Append(dom, NewLiveRegion(priority)),
     liveRegions |-> Put(liveRegions_, priority, Len(dom) + 1)]

\* the element to write to, with the document and the cache as the call
\* leaves them
getLiveRegion_(priority) ==
    IF Has(liveRegions_, priority)
    THEN [liveRegion |-> liveRegions_[priority],
          dom |-> [dom EXCEPT ![liveRegions_[priority]].hidden = FALSE],
          liveRegions |-> liveRegions_]
    ELSE [liveRegion |-> Len(dom) + 1,
          dom |-> Append(dom, NewLiveRegion(priority)),
          liveRegions |-> Put(liveRegions_, priority, Len(dom) + 1)]

DefaultPriority(opt_priority) ==
    IF opt_priority = Undefined THEN POLITE ELSE opt_priority

AnnounceMessage_Plain(last, message) == message

AnnounceMessage(last, message) ==
    IF last = message THEN message \o <<NBSP>> ELSE message

NextLastMessage_Undecorated(last, message, announceMessage) ==
    IF message # <<>> THEN message ELSE last

NextLastMessage_Always(last, message, announceMessage) == announceMessage

NextLastMessage(last, message, announceMessage) ==
    IF message # <<>> THEN announceMessage ELSE last

setTextContent_All(d, element, text) ==
    [e \in DOMAIN d |-> [d[e] EXCEPT !.text = text]]

setTextContent(d, element, text) == [d EXCEPT ![element].text = text]

Remember(history, call) ==
    IF history = <<>> THEN <<call>> ELSE <<history[Len(history)], call>>

say_RegionRepeat(message, opt_priority) ==
    LET priority == DefaultPriority(opt_priority)
        region == getLiveRegion_(priority)
        announceMessage ==
            AnnounceMessage(region.dom[region.liveRegion].text, message)
    IN  /\ ~announcerDisposed
        /\ Len(region.dom) <= MaxElems
        /\ liveRegions_' = region.liveRegions
        /\ lastMessageAnnounced_' =
               NextLastMessage(lastMessageAnnounced_, message, announceMessage)
        /\ dom' = setTextContent(region.dom, region.liveRegion, announceMessage)
        /\ said' = Remember(said, [message |-> message, priority |-> priority,
                                   text |-> dom'[region.liveRegion].text])
        /\ used' = used \cup {priority}
        /\ unhidden' = (Has(liveRegions_, priority)
                           /\ dom[liveRegions_[priority]].hidden)
        /\ aOp' = "say"
        /\ UNCHANGED announcerDisposed

say(message, opt_priority) ==
    LET priority == DefaultPriority(opt_priority)
        region == getLiveRegion_(priority)
        announceMessage == AnnounceMessage(lastMessageAnnounced_, message)
    IN  /\ ~announcerDisposed
        /\ Len(region.dom) <= MaxElems
        /\ liveRegions_' = region.liveRegions
        /\ lastMessageAnnounced_' =
               NextLastMessage(lastMessageAnnounced_, message, announceMessage)
        /\ dom' = setTextContent(region.dom, region.liveRegion, announceMessage)
        /\ said' = Remember(said, [message |-> message, priority |-> priority,
                                   text |-> dom'[region.liveRegion].text])
        /\ used' = used \cup {priority}
        /\ unhidden' = (Has(liveRegions_, priority)
                           /\ dom[liveRegions_[priority]].hidden)
        /\ aOp' = "say"
        /\ UNCHANGED announcerDisposed

Say ==
    /\ \E message \in Messages, opt_priority \in LivePriority \cup {Undefined} :
           say(message, opt_priority)
    /\ UNCHANGED hvars

\* something other than the Announcer marks a cached region aria-hidden
HideRegion ==
    /\ ~announcerDisposed
    /\ \E priority \in LivePriority :
           /\ Has(liveRegions_, priority)
           /\ ~dom[liveRegions_[priority]].hidden
           /\ dom' = [dom EXCEPT ![liveRegions_[priority]].hidden = TRUE]
    /\ unhidden' = FALSE
    /\ aOp' = "hide"
    /\ UNCHANGED <<liveRegions_, lastMessageAnnounced_, announcerDisposed, said,
                   used>>
    /\ UNCHANGED hvars

removeNode_Keep(d, element) == d

removeNode(d, element) == [d EXCEPT ![element].inBody = FALSE]

RECURSIVE RemoveAll(_, _)
RemoveAll(d, elements) ==
    IF elements = {} THEN d
    ELSE LET element == CHOOSE e \in elements : TRUE
         IN  RemoveAll(removeNode(d, element), elements \ {element})

AnnouncerDisposeInternal ==
    /\ dom' = RemoveAll(dom, {liveRegions_[p] : p \in DOMAIN liveRegions_})
    /\ liveRegions_' = JsNull

AnnouncerDispose ==
    /\ ~announcerDisposed
    /\ announcerDisposed' = TRUE
    /\ AnnouncerDisposeInternal
    /\ unhidden' = FALSE
    /\ aOp' = "dispose"
    /\ UNCHANGED <<lastMessageAnnounced_, said, used>>
    /\ UNCHANGED hvars

AnnouncerNext == Say \/ HideRegion \/ AnnouncerDispose

\* ======================================================== OnlineHandler

NoOp(name) ==
    [op |-> name, signal |-> "none", changed |-> FALSE, fired |-> <<>>,
     result |-> "none"]

\* the constructor subscribes to window's 'online' and 'offline' and creates
\* no timer; online_ and timer_ are declared without a value
HandlerInit ==
    /\ navigatorOnLine \in BOOLEAN
    /\ nativeEvents \in BOOLEAN
    /\ eventHandler_ = "listening"
    /\ timer_ = Undefined
    /\ online_ = Undefined
    /\ handlerDisposed = FALSE
    /\ events = <<>>
    /\ hOp = NoOp("new")
    /\ tickFlag = navigatorOnLine

JsBoolean(b) == IF b THEN "true" ELSE "false"

LooseNotEqual_Always(b, v) == TRUE

\* b != v for a boolean b and v a boolean or undefined
LooseNotEqual(b, v) == v = Undefined \/ v # JsBoolean(b)

isOnline_Stored == online_ = "true"

isOnline == navigatorOnLine

handleChange_Dedup(log) ==
    IF log # <<>> /\ log[Len(log)] = (IF isOnline THEN ONLINE ELSE OFFLINE)
    THEN log
    ELSE Append(log, IF isOnline THEN ONLINE ELSE OFFLINE)

\* the event log after handleChange_ has dispatched
handleChange_(log) == Append(log, IF isOnline THEN ONLINE ELSE OFFLINE)

handleTick_NoStore ==
    LET online == isOnline
    IN  IF LooseNotEqual(online, online_)
        THEN [online |-> online_, events |-> handleChange_(events)]
        ELSE [online |-> online_, events |-> events]

\* online_ and the event log after handleTick_
handleTick_ ==
    LET online == isOnline
    IN  IF LooseNotEqual(online, online_)
        THEN [online |-> JsBoolean(online), events |-> handleChange_(events)]
        ELSE [online |-> online_, events |-> events]

HandlerDisposeInternal_KeepTimer ==
    [eventHandler |-> Null, timer |-> timer_]

\* eventHandler_ and timer_ after disposeInternal
HandlerDisposeInternal ==
    [eventHandler |-> Null,
     timer |-> IF timer_ \notin {Undefined, Null} THEN Null ELSE timer_]

\* a listener of the dispatched event may dispose the handler
AfterDispatch(dispatched, disposeInListener) ==
    IF dispatched /\ disposeInListener /\ ~handlerDisposed
    THEN /\ handlerDisposed' = TRUE
         /\ eventHandler_' = HandlerDisposeInternal.eventHandler
         /\ timer_' = HandlerDisposeInternal.timer
    ELSE UNCHANGED <<handlerDisposed, eventHandler_, timer_>>

\* navigator.onLine changes
Flip ==
    /\ navigatorOnLine' = ~navigatorOnLine
    /\ hOp' = NoOp("flip")
    /\ UNCHANGED <<nativeEvents, eventHandler_, timer_, online_,
                   handlerDisposed, events, tickFlag>>
    /\ UNCHANGED avars

WindowEvent_StoresFlag ==
    /\ nativeEvents
    /\ Len(events) < MaxEvents
    /\ \E signal \in {ONLINE, OFFLINE}, disposeInListener \in BOOLEAN :
           /\ events' = IF eventHandler_ = "listening"
                        THEN handleChange_(events) ELSE events
           /\ AfterDispatch(eventHandler_ = "listening", disposeInListener)
           /\ hOp' = [op |-> "signal", signal |-> signal, changed |-> FALSE,
                      fired |-> SubSeq(events', Len(events) + 1, Len(events')),
                      result |-> "none"]
    /\ online_' = IF eventHandler_ = "listening"
                  THEN JsBoolean(isOnline) ELSE online_
    /\ UNCHANGED <<navigatorOnLine, nativeEvents, tickFlag>>
    /\ UNCHANGED avars

\* the browser fires 'online' or 'offline' on window
WindowEvent ==
    /\ nativeEvents
    /\ Len(events) < MaxEvents
    /\ \E signal \in {ONLINE, OFFLINE}, disposeInListener \in BOOLEAN :
           /\ events' = IF eventHandler_ = "listening"
                        THEN handleChange_(events) ELSE events
           /\ AfterDispatch(eventHandler_ = "listening", disposeInListener)
           /\ hOp' = [op |-> "signal", signal |-> signal, changed |-> FALSE,
                      fired |-> SubSeq(events', Len(events) + 1, Len(events')),
                      result |-> "none"]
    /\ UNCHANGED <<navigatorOnLine, nativeEvents, online_, tickFlag>>
    /\ UNCHANGED avars

\* a recurring timer that calls handleTick_ is started
StartPolling ==
    /\ ~handlerDisposed
    /\ ~nativeEvents
    /\ timer_ = Undefined
    /\ timer_' = "running"
    /\ tickFlag' = navigatorOnLine
    /\ hOp' = NoOp("poll")
    /\ UNCHANGED <<navigatorOnLine, nativeEvents, eventHandler_, online_,
                   handlerDisposed, events>>
    /\ UNCHANGED avars

\* POLL_INTERVAL_ elapses
Tick ==
    /\ timer_ = "running"
    /\ Len(events) < MaxEvents
    /\ \E disposeInListener \in BOOLEAN :
           /\ online_' = handleTick_.online
           /\ events' = handleTick_.events
           /\ AfterDispatch(events' # events, disposeInListener)
           /\ hOp' = [op |-> "tick", signal |-> "none",
                      changed |-> (navigatorOnLine # tickFlag),
                      fired |-> SubSeq(events', Len(events) + 1, Len(events')),
                      result |-> "none"]
    /\ tickFlag' = navigatorOnLine
    /\ UNCHANGED <<navigatorOnLine, nativeEvents>>
    /\ UNCHANGED avars

\* a client asks the handler whether the browser is online
CallIsOnline ==
    /\ hOp' = [NoOp("isOnline") EXCEPT !.result = JsBoolean(isOnline)]
    /\ UNCHANGED <<navigatorOnLine, nativeEvents, eventHandler_, timer_, online_,
                   handlerDisposed, events, tickFlag>>
    /\ UNCHANGED avars

HandlerDispose ==
    /\ ~handlerDisposed
    /\ handlerDisposed' = TRUE
    /\ eventHandler_' = HandlerDisposeInternal.eventHandler
    /\ timer_' = HandlerDisposeInternal.timer
    /\ hOp' = NoOp("dispose")
    /\ UNCHANGED <<navigatorOnLine, nativeEvents, online_, events, tickFlag>>
    /\ UNCHANGED avars

HandlerNext ==
    Flip \/ WindowEvent \/ StartPolling \/ Tick \/ CallIsOnline \/ HandlerDispose

\* the handler while the Announcer runs
HandlerIdle ==
    /\ HandlerInit
    /\ navigatorOnLine
    /\ nativeEvents

\* ======================================================= specifications

InitAnnouncer == AnnouncerInit /\ HandlerIdle

SpecAnnouncer == InitAnnouncer /\ [][AnnouncerNext]_vars

\* the Announcer when every message it is given is non-empty
NonEmptyMessages == Messages \ {<<>>}

SayNonEmpty ==
    /\ \E message \in NonEmptyMessages,
          opt_priority \in LivePriority \cup {Undefined} :
           say(message, opt_priority)
    /\ UNCHANGED hvars

AnnouncerNextNonEmpty == SayNonEmpty \/ HideRegion \/ AnnouncerDispose

SpecAnnouncerNonEmpty == InitAnnouncer /\ [][AnnouncerNextNonEmpty]_vars

InitOnline == HandlerInit /\ AnnouncerInit

SpecOnline == InitOnline /\ [][HandlerNext]_vars

\* =============================================================== claims

\* the say call a step makes, and the one before it
Call == said[Len(said)]
Other(priority) == IF priority = POLITE THEN ASSERTIVE ELSE POLITE
Kind(flag) == IF flag THEN ONLINE ELSE OFFLINE

\* C1 as claimed: for a non-empty m, say(m) right after say(m) renders
\* m + NBSP whatever the first call rendered, and a third say(m2) with
\* m2 # m renders exactly m2.
C1_RepeatAsClaimed ==
    [][aOp' = "say" =>
          /\ ((/\ said # <<>>
               /\ Call'.message # <<>>
               /\ Call.message = Call'.message)
                  => Call'.text = Call'.message \o <<NBSP>>)
          /\ ((/\ Len(said) = 2
               /\ said[1].message # <<>>
               /\ said[1].message = said[2].message
               /\ Call'.message # said[2].message)
                  => Call'.text = Call'.message)]_vars

\* C1 amended: for a non-empty m, when say(m) renders m undecorated, a say(m)
\* right after it renders m + NBSP, and a third say(m2) with m2 different
\* from m and from m + NBSP renders exactly m2.
C1_RepeatDecoration ==
    [][aOp' = "say" =>
          /\ ((/\ said # <<>>
               /\ Call'.message # <<>>
               /\ Call.message = Call'.message
               /\ Call.text = Call.message)
                  => Call'.text = Call'.message \o <<NBSP>>)
          /\ ((/\ Len(said) = 2
               /\ said[1].message # <<>>
               /\ said[1].message = said[2].message
               /\ said[1].text = said[1].message
               /\ Call'.message # said[2].message
               /\ Call'.message # said[2].message \o <<NBSP>>)
                  => Call'.text = Call'.message)]_vars

C1_Witness ==
    /\ aOp = "say"
    /\ Len(said) = 2
    /\ said[1].priority = said[2].priority
    /\ said[1].message = <<"a">> /\ said[1].text = <<"a">>
    /\ said[2].message = <<"a">> /\ said[2].text = <<"a", NBSP>>

\* C2: say("") leaves the targeted region's text empty, in every state of a
\* live Announcer, the freshly constructed one included.
C2_EmptyMessageClears ==
    (aOp = "say" /\ Call.message = <<>>)
        => dom[RegionOf(Call.priority)].text = <<>>

\* C3: before disposal each priority has exactly one live region in the
\* document if say was ever called with it, none otherwise, and the cache
\* holds that element.
C3_OneRegionPerPriority ==
    ~announcerDisposed =>
        \A priority \in LivePriority :
            LET regions == {e \in 1..Len(dom) : dom[e].live = priority}
            IN  /\ Cardinality(regions) = IF priority \in used THEN 1 ELSE 0
                /\ regions \subseteq InDocument
                /\ regions = {RegionOf(priority)} \ {0}

C3_Witness ==
    /\ aOp = "say"
    /\ Len(said) = 2
    /\ said[1].priority = ASSERTIVE /\ said[2].priority = ASSERTIVE
    /\ used = LivePriority
    /\ Len(dom) = 2

\* C8: after dispose no element that say created is in the document and the
\* region cache holds no element.
C8_DisposalCleanup ==
    announcerDisposed =>
        /\ liveRegions_ = JsNull
        /\ InDocument = {}

C8_Witness ==
    /\ announcerDisposed
    /\ used = LivePriority
    /\ Len(dom) = 2

\* C9 as claimed: say(m, p) right after say(m, q) with q # p and m non-empty
\* writes m + NBSP into p's region.
C9_CrossPriorityAsClaimed ==
    [][(/\ aOp' = "say"
        /\ said # <<>>
        /\ Call'.message # <<>>
        /\ Call.message = Call'.message
        /\ Call.priority # Call'.priority)
              => \A priority \in LivePriority :
                     Call'.priority = priority =>
                         dom'[RegionOf(priority)'].text
                             = Call'.message \o <<NBSP>>]_vars

\* C9 amended: when say(m, q) renders a non-empty m undecorated, say(m, p)
\* right after it with p # q writes m + NBSP into p's region, whether or not
\* that region existed before.
C9_CrossPriorityRepeat ==
    [][(/\ aOp' = "say"
        /\ said # <<>>
        /\ Call'.message # <<>>
        /\ Call.message = Call'.message
        /\ Call.text = Call.message
        /\ Call.priority # Call'.priority)
              => \A priority \in LivePriority :
                     Call'.priority = priority =>
                         dom'[RegionOf(priority)'].text
                             = Call'.message \o <<NBSP>>]_vars

\* the second region was created by the call that decorated
C9_Witness ==
    /\ aOp = "say"
    /\ Len(said) = 2
    /\ said[1] = [message |-> <<"a">>, priority |-> POLITE, text |-> <<"a">>]
    /\ said[2].message = <<"a">> /\ said[2].priority = ASSERTIVE
    /\ dom[RegionOf(ASSERTIVE)].text = <<"a", NBSP>>
    /\ dom[RegionOf(POLITE)].text = <<"a">>
    /\ RegionOf(ASSERTIVE) = 2

\* C10: say(m, p) writes p's region only: the other priority's region is a
\* different element, is neither created nor replaced, and every element but
\* the target keeps its content.
C10_PriorityIsolation ==
    [][aOp' = "say" =>
          \A priority \in LivePriority :
              Call'.priority = priority =>
                  /\ RegionOf(Other(priority))' = RegionOf(Other(priority))
                  /\ RegionOf(priority)' # RegionOf(Other(priority))
                  /\ \A e \in 1..Len(dom) :
                         e # RegionOf(priority)' => dom'[e].text = dom[e].text
                  /\ dom'[RegionOf(priority)'].text = Call'.text]_vars

C10_Witness ==
    /\ aOp = "say"
    /\ Len(said) = 2
    /\ said[1].priority = POLITE /\ said[2].priority = ASSERTIVE
    /\ dom[RegionOf(POLITE)].text = <<"a">>
    /\ dom[RegionOf(ASSERTIVE)].text = <<"a", "a">>

\* C4: a tick dispatches exactly one event, of the kind of the flag, when
\* navigator.onLine differs from its value at the previous tick (for the
\* first tick, from its value when polling started), and none otherwise.
C4_TickDetection ==
    hOp.op = "tick" =>
        hOp.fired = IF hOp.changed THEN <<Kind(navigatorOnLine)>> ELSE <<>>

\* C5: a native 'online' or 'offline' signal delivered to a live handler
\* dispatches exactly one event, ONLINE iff navigator.onLine is true then,
\* whichever signal it was and whatever was dispatched before.
C5_EventDrivenDetection ==
    [][(hOp'.op = "signal" /\ ~handlerDisposed)
          => events' = Append(events, Kind(navigatorOnLine))]_vars

\* an 'online' signal answered by OFFLINE, right after another OFFLINE
C5_Witness ==
    /\ hOp.op = "signal"
    /\ hOp.signal = ONLINE
    /\ hOp.fired = <<OFFLINE>>
    /\ Len(events) >= 2
    /\ events[Len(events) - 1] = OFFLINE

\* C6: a handler constructed where the browser fires no native signals has
\* a running timer from construction on, and only such a handler has one.
C6_PollingFallback ==
    /\ ((~nativeEvents /\ ~handlerDisposed) => timer_ = "running")
    /\ (timer_ = "running" => ~nativeEvents)

\* C7: once the handler is disposed it listens to nothing, has no running
\* timer, and no step dispatches an event.
C7_DisposalStopsNotifications ==
    /\ [](handlerDisposed =>
             /\ eventHandler_ = Null
             /\ timer_ \in {Undefined, Null})
    /\ [][handlerDisposed => events' = events]_vars

\* navigator.onLine flips after a polling handler that had dispatched an
\* event was disposed
C7_Witness ==
    /\ handlerDisposed
    /\ timer_ = Null
    /\ hOp.op = "flip"
    /\ events # <<>>
    /\ navigatorOnLine # tickFlag

\* C11: right after a say with a non-empty message, lastMessageAnnounced_
\* is the text that the call wrote into its region, decorated or not.
C11_LastAnnouncedIsWritten ==
    (aOp = "say" /\ Call.message # <<>>)
        => lastMessageAnnounced_ = dom[RegionOf(Call.priority)].text

\* a decorated write is what the cache holds
C11_Witness ==
    /\ aOp = "say"
    /\ Call.message = <<"a">>
    /\ dom[RegionOf(Call.priority)].text = <<"a", NBSP>>
    /\ lastMessageAnnounced_ = <<"a", NBSP>>

\* C12: a say with the empty message leaves lastMessageAnnounced_ as it was,
\* while the region's text is still overwritten.
C12_EmptyKeepsLastAnnounced ==
    [][(aOp' = "say" /\ Call'.message = <<>>)
          => /\ lastMessageAnnounced_' = lastMessageAnnounced_
             /\ \A priority \in LivePriority :
                    Call'.priority = priority =>
                        dom'[RegionOf(priority)'].text \in {<<>>, <<NBSP>>}]_vars

\* say("") after say("a"): the region is cleared, the cache still holds "a"
C12_Witness ==
    /\ aOp = "say"
    /\ Len(said) = 2
    /\ said[1].message = <<"a">> /\ said[1].priority = said[2].priority
    /\ said[2].message = <<>>
    /\ dom[RegionOf(Call.priority)].text = <<>>
    /\ lastMessageAnnounced_ = <<"a">>

\* C16: when say(m, p) returns, p's region is not aria-hidden, whether the
\* region is new or was cached and had been hidden from outside.
C16_HiddenCleared ==
    aOp = "say" => ~dom[RegionOf(Call.priority)].hidden

\* the call found its cached region hidden
C16_Witness ==
    /\ aOp = "say"
    /\ unhidden
    /\ ~dom[RegionOf(Call.priority)].hidden

\* C17: before disposal every cached region of priority p has live = p and
\* atomic = true and is in the document body, and no say changes the live
\* or atomic state of an element.
C17_RegionAttributes ==
    /\ [](~announcerDisposed =>
             \A priority \in DOMAIN liveRegions_ :
                 /\ dom[liveRegions_[priority]].live = priority
                 /\ dom[liveRegions_[priority]].atomic = "true"
                 /\ liveRegions_[priority] \in InDocument)
    /\ [][aOp' = "say" =>
             \A e \in 1..Len(dom) :
                 /\ dom'[e].live = dom[e].live
                 /\ dom'[e].atomic = dom[e].atomic]_vars

\* both regions cached, each written more than once
C17_Witness ==
    /\ aOp = "say"
    /\ DOMAIN liveRegions_ = LivePriority
    /\ dom[RegionOf(ASSERTIVE)].live = ASSERTIVE
    /\ dom[RegionOf(POLITE)].live = POLITE
    /\ Len(said) = 2
    /\ said[1].priority = POLITE /\ said[2].priority = POLITE
    /\ RegionOf(POLITE) = 2

\* C13: isOnline() returns navigator.onLine as it is when called, not the
\* stored online_, also when the flag has flipped since the last tick.
C13_IsOnlineReadsEnvironment ==
    hOp.op = "isOnline" => hOp.result = JsBoolean(navigatorOnLine)

\* the flag went offline after a tick stored "true"; no tick since
C13_Witness ==
    /\ hOp.op = "isOnline"
    /\ hOp.result = "false"
    /\ online_ = "true"
    /\ navigatorOnLine # tickFlag

\* C14: only a tick writes online_: a native signal, a call of isOnline, a
\* flip of the flag and dispose leave it as it is.
C14_OnlineWrittenByTickOnly ==
    [][hOp'.op # "tick" => online_' = online_]_vars

\* a native signal dispatched an event and online_ still has no value
C14_Witness ==
    /\ hOp.op = "signal"
    /\ hOp.fired = <<ONLINE>>
    /\ events = <<ONLINE>>
    /\ online_ = Undefined

\* C15 as claimed: once an event has been dispatched, by a native signal or
\* by a tick, online_ is the kind of the latest dispatched event.
C15_StoredFlagAsClaimed ==
    events # <<>> => online_ = JsBoolean(events[Len(events)] = ONLINE)

\* C15 amended: where only ticks dispatch, online_ has no value until the
\* first tick and is the kind of the latest dispatched event afterwards;
\* where native signals dispatch, online_ never gets a value.
C15_StoredFlag ==
    /\ ~nativeEvents =>
           /\ online_ = Undefined <=> events = <<>>
           /\ events # <<>> => online_ = JsBoolean(events[Len(events)] = ONLINE)
    /\ nativeEvents => online_ = Undefined

C15_Witness ==
    /\ ~nativeEvents
    /\ hOp.op = "tick"
    /\ events = <<ONLINE, OFFLINE>>
    /\ hOp.fired = <<OFFLINE>>
    /\ online_ = "false"

\* C19: where only ticks dispatch, no two consecutive dispatched events are
\* of the same kind.
C19_TickEventsAlternate ==
    ~nativeEvents =>
        \A i \in 1..(Len(events) - 1) : events[i] # events[i + 1]

\* after ONLINE, OFFLINE a tick found the flag as the previous tick left it
C19_Witness ==
    /\ ~nativeEvents
    /\ events = <<ONLINE, OFFLINE>>
    /\ hOp.op = "tick"
    /\ hOp.fired = <<>>
    /\ online_ = "false"

\* C18: when every message is non-empty, a say that targets a region that
\* already exists leaves that region's text different from what it was.
C18_AlwaysMutates ==
    [][aOp' = "say" =>
          \A priority \in LivePriority :
              (Call'.priority = priority /\ Has(liveRegions_, priority))
                  => dom'[liveRegions_[priority]].text
                         # dom[liveRegions_[priority]].text]_vars

====
